---- MODULE Spec2Model ----
(***************************************************************************)
(* Log Eagle dashboard (dashboard.py): the snapshot reader                 *)
(* read_latest_parquet_files, the memoized get_dataframe, and the Dash     *)
(* callback update_content with create_time_series and create_log_table.   *)
(*                                                                         *)
(* A DataFrame is modelled as the sequence of its rows.  A row carries the *)
(* two columns the program uses, timestamp and line, and a ghost field     *)
(* source_file naming the snapshot the row was read from.                  *)
(*                                                                         *)
(* flask-caching's memoize is taken as it is documented: an entry is kept  *)
(* per function and arguments and served for timeout seconds after it was  *)
(* set; lookup, the call of the function and the set are separate steps    *)
(* with no lock around them, and the set of an entry is atomic.  The Flask *)
(* server runs callbacks of concurrent requests in separate threads, so    *)
(* the steps of two update_content calls interleave.                       *)
(***************************************************************************)
EXTENDS Integers, Sequences, FiniteSets, TLC

\* ------------------------------------------------------------------------
\* Program constants
\* ------------------------------------------------------------------------

\* Config.refresh_interval: the cache timeout and the dcc.Interval period (s)
refresh_interval == 10

\* sorted(files, reverse=True)[:5]
WindowSize == 5

\* df.resample('1min'): bucket width in seconds
BucketSeconds == 60

\* df.tail(10)
TailSize == 10

\* the two log types update_content asks for
Categories == {"access", "error"}

\* ------------------------------------------------------------------------
\* Bounds of the model
\* ------------------------------------------------------------------------

\* snapshot files per log type in the reader's specification
MaxFile == 7

\* snapshot files in the dashboard's specification, dealt to the log types
\* in turn
SysFiles == 2

\* number of the first snapshot; file i is named <prefix><FirstStamp+i-1>.parquet
FirstStamp == 6

\* rows stored in every readable snapshot
RecordsPerFile == 2

\* the clock stops at MaxTime
MaxTime == 10

\* rows appended one by one to the aggregator's input
FreeLen == 3

\* longest aggregator input
MaxRecs == 12

Min(a, b) == IF a <= b THEN a ELSE b

\* ------------------------------------------------------------------------
\* File names and their order
\* ------------------------------------------------------------------------

\* '.' sorts below every digit
DOT == -1

RECURSIVE Digits(_)
\* the decimal digits of n, most significant first: str(n)
Digits(n) == IF n < 10 THEN <<n>> ELSE Append(Digits(n \div 10), n % 10)

\* A file name is [prefix, stamp]; its path is
\* <log_dir>/<prefix><stamp>.parquet.  All paths of one glob share
\* directory and prefix, so they compare by what follows the prefix.
PathTail(f) == Append(Digits(f.stamp), DOT)

RECURSIVE LexLess(_, _)
\* Python's str comparison: first differing character decides, a proper
\* prefix is smaller
LexLess(a, b) ==
    IF a = <<>> THEN b # <<>>
    ELSE IF b = <<>> THEN FALSE
    ELSE IF Head(a) # Head(b) THEN Head(a) < Head(b)
    ELSE LexLess(Tail(a), Tail(b))

\* str.__lt__ on two paths of one glob
PathLess(f, g) == LexLess(PathTail(f), PathTail(g))

FileNames(n) == [prefix : Categories, stamp : FirstStamp .. (FirstStamp + n - 1)]

\* the i-th name of the dashboard's directory
FileAt(i) ==
    [prefix |-> IF i % 2 = 1 THEN "access" ELSE "error",
     stamp  |-> FirstStamp + ((i - 1) \div 2)]

SysFileNames == {FileAt(i) : i \in 1 .. SysFiles}

Status == {"absent", "ok", "bad"}

\* glob.glob(os.path.join(directory, f"{prefix}*.parquet")): the names in
\* the directory that start with prefix.  A missing directory lists nothing.
Glob(d, prefix) == {f \in DOMAIN d : d[f] # "absent" /\ f.prefix = prefix}

RECURSIVE SortedReverse(_)
\* sorted(files, reverse=True)
SortedReverse(S) ==
    IF S = {} THEN <<>>
    ELSE LET m == CHOOSE x \in S : \A y \in S : y = x \/ PathLess(y, x)
         IN  <<m>> \o SortedReverse(S \ {m})

TakeOneMore(s, n) == SubSeq(s, 1, Min(n + 1, Len(s)))

\* s[:n]
Take(s, n) == SubSeq(s, 1, Min(n, Len(s)))

\* sorted(files, reverse=True)[:5]
SelectedFiles(d, prefix) == Take(SortedReverse(Glob(d, prefix)), WindowSize)

\* the rows a readable snapshot holds, in stored order
FileRows(f) ==
    [j \in 1 .. RecordsPerFile |->
        [timestamp   |-> f.stamp * BucketSeconds + (j - 1) * (BucketSeconds \div 2),
         line        |-> "entry",
         source_file |-> f]]

\* pd.read_parquet(file) succeeds
ReadOk(d, f) == d[f] = "ok"

RECURSIVE ReadAllStopAtFailure(_, _)
ReadAllStopAtFailure(d, files) ==
    IF files = <<>> THEN <<>>
    ELSE IF ReadOk(d, Head(files))
         THEN <<FileRows(Head(files))>> \o ReadAllStopAtFailure(d, Tail(files))
         ELSE <<>>

RECURSIVE ReadAll(_, _)
\* the loop of lines 45-50: dfs.append(df) on success, continue on failure
ReadAll(d, files) ==
    IF files = <<>> THEN <<>>
    ELSE IF ReadOk(d, Head(files))
         THEN <<FileRows(Head(files))>> \o ReadAll(d, Tail(files))
         ELSE ReadAll(d, Tail(files))

RECURSIVE Concat(_)
\* pd.concat(dfs, ignore_index=True)
Concat(dfs) == IF dfs = <<>> THEN <<>> ELSE Head(dfs) \o Concat(Tail(dfs))

\* pd.DataFrame()
EmptyFrame == <<>>

read_latest_parquet_files(d, prefix) ==
    IF Glob(d, prefix) = {} THEN EmptyFrame
    ELSE LET dfs == ReadAll(d, SelectedFiles(d, prefix))
         IN  IF dfs = <<>> THEN EmptyFrame ELSE Concat(dfs)

\* ------------------------------------------------------------------------
\* update_content after get_dataframe: lines 118-150
\* ------------------------------------------------------------------------

\* a timestamp cell that is null (None / NaN); pd.to_datetime maps it to NaT
NaT == -1

\* a timestamp cell pd.to_datetime(..., unit='s') cannot convert (text)
Unparseable == -2

IsEpoch(t) == t >= 0

\* pd.to_datetime(df['timestamp'], unit='s') with the default
\* errors='raise': one cell that cannot be converted raises ValueError
to_datetime_raises(df) == \E i \in DOMAIN df : df[i].timestamp = Unparseable

\* index order of sort_index(): ascending, NaT last (na_position='last')
IndexBefore(a, b) == IsEpoch(a) /\ (b = NaT \/ a < b)

RECURSIVE InsertRow(_, _, _)
\* place row r into the sorted rows s; rows of equal index keep their
\* arrival order when stable, and are reversed otherwise
InsertRow(s, r, stable) ==
    IF s = <<>> THEN <<r>>
    ELSE LET last == s[Len(s)]
             front == SubSeq(s, 1, Len(s) - 1)
         IN  IF IndexBefore(r.timestamp, last.timestamp)
                \/ (~stable /\ r.timestamp = last.timestamp)
             THEN Append(InsertRow(front, r, stable), last)
             ELSE Append(s, r)

RECURSIVE SortRows(_, _)
SortRows(df, stable) ==
    IF df = <<>> THEN <<>>
    ELSE InsertRow(SortRows(SubSeq(df, 1, Len(df) - 1), stable), df[Len(df)], stable)

sort_index_unsorted(df, stable) == df

\* df.set_index('timestamp').sort_index(); the default kind='quicksort'
\* promises no order among equal index values
sort_index(df, stable) == SortRows(df, stable)

FloorToStart(t) == t

\* the left edge of the 1-minute bin holding t: resample('1min') aligns
\* its bins to whole minutes
FloorToBucket(t) == t - (t % BucketSeconds)

RECURSIVE CountLines(_, _)
\* .count()['line'] of one bin: the cells of the line column in the bin
\* (count() skips null cells; every row of the model has its line)
CountLines(df, start) ==
    IF df = <<>> THEN 0
    ELSE (IF IsEpoch(Head(df).timestamp)
             /\ FloorToBucket(Head(df).timestamp) = start
          THEN 1 ELSE 0) + CountLines(Tail(df), start)

EpochRows(df) == SelectSeq(df, LAMBDA r : IsEpoch(r.timestamp))

\* df.resample('1min').count()['line'] of a sorted frame: one bin for every
\* minute from the first row's to the last row's, empty ones included.
\* The trace plots x = interval_start, y = count.
create_time_series(df) ==
    LET rows == EpochRows(df)
    IN  IF rows = <<>> THEN <<>>
        ELSE LET lo == FloorToBucket(rows[1].timestamp)
                 hi == FloorToBucket(rows[Len(rows)].timestamp)
                 n  == ((hi - lo) \div BucketSeconds) + 1
             IN  [i \in 1 .. n |->
                     [interval_start |-> lo + (i - 1) * BucketSeconds,
                      count |-> CountLines(df, lo + (i - 1) * BucketSeconds)]]

\* df.tail(10)
tail_rows(df) == SubSeq(df, Len(df) - Min(TailSize, Len(df)) + 1, Len(df))

\* row['timestamp'].strftime(...) raises ValueError on NaT
create_log_table_raises(df) ==
    \E i \in DOMAIN tail_rows(df) : tail_rows(df)[i].timestamp = NaT

\* one html.Tr per row of df.tail(10): the timestamp (formatted to the
\* second, which names the epoch second one to one) and the line
create_log_table(df) ==
    [i \in DOMAIN tail_rows(df) |->
        [timestamp |-> tail_rows(df)[i].timestamp, line |-> tail_rows(df)[i].line]]

NoData == [kind |-> "nodata"]
Raised == [kind |-> "raised"]

RenderContentNoEmptyCheck(df, stable) ==
    IF df = EmptyFrame \/ to_datetime_raises(df) THEN Raised
    ELSE [kind    |-> "content",
          buckets |-> create_time_series(sort_index(df, stable)),
          recent  |-> create_log_table(sort_index(df, stable))]

\* lines 118-150 of update_content, given the frame get_dataframe returned:
\* the "No Data Available" Div, an exception that leaves the callback, or
\* the Div holding the graph and the table
RenderContent(df, stable) ==
    IF df = EmptyFrame THEN NoData
    ELSE IF to_datetime_raises(df) THEN Raised
    ELSE LET sorted == sort_index(df, stable)
         IN  IF create_log_table_raises(sorted) THEN Raised
             ELSE [kind    |-> "content",
                   buckets |-> create_time_series(sorted),
                   recent  |-> create_log_table(sorted)]

\* ------------------------------------------------------------------------
\* State
\* ------------------------------------------------------------------------

VARIABLES
    dir,       \* config.log_dir: file name -> "absent" | "ok" | "bad" (unreadable)
    now,       \* wall clock, seconds
    cache,     \* the memoize store: cache key -> NoEntry | [value, loaded_at]
    tab,       \* value of the 'tabs' component in the viewer's browser
    callback,  \* per trigger, the update_content call in flight
    merged,    \* reader's specification: the last frame the reader returned
    frame,     \* aggregator's specification: the frame to be rendered
    shown      \* aggregator's specification: what rendering it gave

vars == <<dir, now, cache, tab, callback, merged, frame, shown>>

\* the two Inputs of the callback: 'interval-component'.n_intervals and
\* 'tabs'.value; each has at most one request in flight
Procs == {"interval", "tabs"}

Tabs == {"tab-1", "tab-2"}

LogTypeOfTabSwapped(t) == IF t = "tab-1" THEN "error" ELSE "access"

\* lines 111-116
LogTypeOfTab(t) == IF t = "tab-1" THEN "access" ELSE "error"

CacheKeyShared(log_type) == "access"

\* memoize keys an entry by the function and its arguments
CacheKey(log_type) == log_type

NoEntry == [value |-> EmptyFrame, loaded_at |-> -1]

IsValidLate(e, t) == e # NoEntry /\ t - e.loaded_at <= refresh_interval

IsValidHalf(e, t) == e # NoEntry /\ 2 * (t - e.loaded_at) < refresh_interval

\* an entry set with timeout=refresh_interval is served while it is
\* younger than the timeout
IsValid(e, t) == e # NoEntry /\ t - e.loaded_at < refresh_interval

\* the clock moves in steps of half the refresh interval
ClockStep == refresh_interval \div 2

Idle == [pc |-> "idle"]

NoMerge == [prefix |-> "none", rows |-> EmptyFrame]

NotShown == [kind |-> "pending"]

\* ------------------------------------------------------------------------
\* The dashboard: directory, clock, cache and the two callback triggers
\* ------------------------------------------------------------------------

Init ==
    /\ dir = [f \in SysFileNames |-> "absent"]
    /\ now = 0
    /\ cache = [k \in Categories |-> NoEntry]
    /\ tab = "tab-1"
    /\ callback = [p \in Procs |-> Idle]
    /\ merged = NoMerge
    /\ frame = EmptyFrame
    /\ shown = NotShown

Rest == UNCHANGED <<merged, frame, shown>>

\* the log processor writes a snapshot
WriteSnapshot(f) ==
    /\ dir[f] = "absent"
    /\ dir' = [dir EXCEPT ![f] = "ok"]
    /\ UNCHANGED <<now, cache, tab, callback>> /\ Rest

\* a snapshot becomes unreadable (truncated, corrupt, other schema)
DamageSnapshot(f) ==
    /\ dir[f] = "ok"
    /\ dir' = [dir EXCEPT ![f] = "bad"]
    /\ UNCHANGED <<now, cache, tab, callback>> /\ Rest

\* a snapshot is rotated away
RemoveSnapshot(f) ==
    /\ dir[f] # "absent"
    /\ dir' = [dir EXCEPT ![f] = "absent"]
    /\ UNCHANGED <<now, cache, tab, callback>> /\ Rest

AdvanceClock ==
    /\ now + ClockStep <= MaxTime
    /\ now' = now + ClockStep
    /\ UNCHANGED <<dir, cache, tab, callback>> /\ Rest

\* get_dataframe(log_type) finds a valid entry: memoize returns its value
\* and the callback goes on to render it (lines 118-150)
GetDataframeHit(p, log_type) ==
    LET e == cache[CacheKey(log_type)]
    IN  /\ IsValid(e, now)
        /\ \E stable \in BOOLEAN :
             callback' = [callback EXCEPT ![p] =
                 [pc        |-> "respond",
                  log_type  |-> log_type,
                  calls     |-> [c \in Categories |-> IF c = log_type THEN 1 ELSE 0],
                  hit       |-> TRUE,
                  loaded_at |-> e.loaded_at,
                  df        |-> e.value,
                  children  |-> RenderContent(e.value, stable)]]
        /\ UNCHANGED cache

\* get_dataframe(log_type) finds no valid entry: memoize runs
\* read_latest_parquet_files(config.log_dir, log_type)
GetDataframeMiss(p, log_type) ==
    /\ ~IsValid(cache[CacheKey(log_type)], now)
    /\ callback' = [callback EXCEPT ![p] =
           [pc        |-> "store",
            log_type  |-> log_type,
            calls     |-> [c \in Categories |-> IF c = log_type THEN 1 ELSE 0],
            df        |-> read_latest_parquet_files(dir, log_type)]]
    /\ UNCHANGED cache

\* update_content(tab, n) up to the return of the cache lookup
update_content(p, t) ==
    /\ callback[p].pc = "idle"
    /\ (GetDataframeHit(p, LogTypeOfTab(t)) \/ GetDataframeMiss(p, LogTypeOfTab(t)))
    /\ UNCHANGED <<dir, now>> /\ Rest

\* the viewer selects the other tab: Input('tabs', 'value') fires
SelectTab(t) ==
    /\ t # tab
    /\ tab' = t
    /\ update_content("tabs", t)

\* dcc.Interval fires: Input('interval-component', 'n_intervals')
IntervalTick ==
    /\ tab' = tab
    /\ update_content("interval", tab)

\* after the miss: memoize stores the result under the key with the current
\* time and returns it; the callback renders it (lines 118-150)
StoreAndRender(p) ==
    /\ callback[p].pc = "store"
    /\ cache' = [cache EXCEPT ![CacheKey(callback[p].log_type)] =
                    [value |-> callback[p].df, loaded_at |-> now]]
    /\ \E stable \in BOOLEAN :
         callback' = [callback EXCEPT ![p] =
             [pc        |-> "respond",
              log_type  |-> callback[p].log_type,
              calls     |-> callback[p].calls,
              hit       |-> FALSE,
              loaded_at |-> now,
              df        |-> callback[p].df,
              children  |-> RenderContent(callback[p].df, stable)]]
    /\ UNCHANGED <<dir, now, tab>> /\ Rest

\* the callback returns; Dash sends the children to the browser
Respond(p) ==
    /\ callback[p].pc = "respond"
    /\ callback' = [callback EXCEPT ![p] = Idle]
    /\ UNCHANGED <<dir, now, cache, tab>> /\ Rest

Next ==
    \/ \E f \in DOMAIN dir : WriteSnapshot(f)
    \/ \E f \in DOMAIN dir : DamageSnapshot(f)
    \/ \E f \in DOMAIN dir : RemoveSnapshot(f)
    \/ AdvanceClock
    \/ \E t \in Tabs : SelectTab(t)
    \/ IntervalTick
    \/ \E p \in Procs : StoreAndRender(p)
    \/ \E p \in Procs : Respond(p)

Spec == Init /\ [][Next]_vars

\* ------------------------------------------------------------------------
\* The reader alone: read_latest_parquet_files over every directory
\* ------------------------------------------------------------------------

\* every state of the access snapshots; of the error snapshots only the
\* first may be present
MergeDirs ==
    {[f \in FileNames(MaxFile) |->
        IF f.prefix = "access" THEN a[f.stamp]
        ELSE IF f.stamp = FirstStamp THEN e ELSE "absent"] :
     a \in [FirstStamp .. (FirstStamp + MaxFile - 1) -> Status], e \in Status}

InitMerge ==
    /\ dir \in MergeDirs
    /\ now = 0
    /\ cache = [k \in Categories |-> NoEntry]
    /\ tab = "tab-1"
    /\ callback = [p \in Procs |-> Idle]
    /\ merged = NoMerge
    /\ frame = EmptyFrame
    /\ shown = NotShown

ReadLatest(prefix) ==
    /\ merged = NoMerge
    /\ merged' = [prefix |-> prefix, rows |-> read_latest_parquet_files(dir, prefix)]
    /\ UNCHANGED <<dir, now, cache, tab, callback, frame, shown>>

NextMerge == \E prefix \in Categories : ReadLatest(prefix)

SpecMerge == InitMerge /\ [][NextMerge]_vars

\* ------------------------------------------------------------------------
\* The rendering alone: lines 118-150 over bounded frames
\* ------------------------------------------------------------------------

TimestampCells == {0, 30, 61, 125, NaT, Unparseable}

LineCells == {"GET /", "GET /missing"}

InitAgg ==
    /\ dir = [f \in SysFileNames |-> "absent"]
    /\ now = 0
    /\ cache = [k \in Categories |-> NoEntry]
    /\ tab = "tab-1"
    /\ callback = [p \in Procs |-> Idle]
    /\ merged = NoMerge
    /\ frame = EmptyFrame
    /\ shown = NotShown

\* one more row in the frame
AppendRow(t, l) ==
    /\ shown = NotShown
    /\ Len(frame) < FreeLen
    /\ frame' = Append(frame, [timestamp |-> t, line |-> l])
    /\ UNCHANGED <<dir, now, cache, tab, callback, merged, shown>>

\* the frame holds every row twice (overlapping snapshots are not
\* deduplicated by pd.concat)
DuplicateRows ==
    /\ shown = NotShown
    /\ frame # EmptyFrame
    /\ 2 * Len(frame) <= MaxRecs
    /\ frame' = frame \o frame
    /\ UNCHANGED <<dir, now, cache, tab, callback, merged, shown>>

\* update_content renders the frame
Render ==
    /\ shown = NotShown
    /\ \E stable \in BOOLEAN : shown' = RenderContent(frame, stable)
    /\ UNCHANGED <<dir, now, cache, tab, callback, merged, frame>>

NextAgg ==
    \/ \E t \in TimestampCells, l \in LineCells : AppendRow(t, l)
    \/ DuplicateRows
    \/ Render

SpecAgg == InitAgg /\ [][NextAgg]_vars

\* ------------------------------------------------------------------------
\* Properties of the reader (SpecMerge)
\* ------------------------------------------------------------------------

\* the names the reader's glob lists for the prefix it was called with
Listed == {f \in DOMAIN dir : dir[f] # "absent" /\ f.prefix = merged.prefix}

\* the window: the listed names with fewer than WindowSize listed names
\* after them in the lexical order of their paths
Window ==
    {f \in Listed :
        Cardinality({g \in Listed : LexLess(PathTail(f), PathTail(g))}) < WindowSize}

RECURSIVE DescendingSeq(_)
\* the names of S, lexically greatest first
DescendingSeq(S) ==
    IF S = {} THEN <<>>
    ELSE LET m == CHOOSE x \in S :
                    \A y \in S : y = x \/ LexLess(PathTail(y), PathTail(x))
         IN  <<m>> \o DescendingSeq(S \ {m})

ReadableWindow == {f \in Window : dir[f] = "ok"}

SourceFiles(rows) == {rows[i].source_file : i \in DOMAIN rows}

\* C3: an unreadable snapshot of the window contributes no row and takes
\* none away from the others: the merged frame is the rows of the readable
\* snapshots of the window, one snapshot after the other, RecordsPerFile
\* rows for each of them.
C3_FailureIsolated ==
    merged # NoMerge =>
        LET good == DescendingSeq(ReadableWindow)
        IN  /\ merged.rows = Concat([i \in DOMAIN good |-> FileRows(good[i])])
            /\ Len(merged.rows) = RecordsPerFile * Cardinality(ReadableWindow)

\* a full window of WindowSize snapshots, some unreadable and some not
C3_Witness ==
    /\ merged # NoMerge
    /\ Cardinality(Window) = WindowSize
    /\ \E f \in Window : dir[f] = "bad"
    /\ \E c \in 1 .. (WindowSize - 1) :
         /\ Cardinality(Window \ ReadableWindow) = c
         /\ Len(merged.rows) = RecordsPerFile * (WindowSize - c)

Rendered(df) ==
    /\ shown # NotShown
    /\ df # EmptyFrame
    /\ \A i \in DOMAIN df : IsEpoch(df[i].timestamp)

HasBadTimestamp(df) == \E i \in DOMAIN df : ~IsEpoch(df[i].timestamp)

\* C6: a frame with rows whose timestamp is missing or unparseable is
\* rendered normally from the other rows; nothing is raised and no such
\* row is in the table.
C6_BadTimestampsDiscarded ==
    (shown # NotShown /\ HasBadTimestamp(frame)) =>
        /\ shown.kind # "raised"
        /\ shown.kind = "content" =>
             \A i \in DOMAIN shown.recent : IsEpoch(shown.recent[i].timestamp)

\* the left edge of the minute that holds t
MinuteOf(t) == CHOOSE s \in 0 .. t : s % BucketSeconds = 0 /\ s <= t /\ t < s + BucketSeconds

RowsInMinute(df, s) == {i \in DOMAIN df : IsEpoch(df[i].timestamp) /\ MinuteOf(df[i].timestamp) = s}

Minutes(df) == {MinuteOf(df[i].timestamp) : i \in {j \in DOMAIN df : IsEpoch(df[j].timestamp)}}

Ascending(b) == \A i, j \in DOMAIN b : i < j => b[i].interval_start < b[j].interval_start

\* C7 as written: one bucket for every minute that holds a row and no
\* other, ascending, counting the rows of the minute.
C7_SparseBuckets ==
    Rendered(frame) =>
        /\ shown.kind = "content"
        /\ Ascending(shown.buckets)
        /\ {shown.buckets[i].interval_start : i \in DOMAIN shown.buckets} = Minutes(frame)
        /\ \A i \in DOMAIN shown.buckets :
             shown.buckets[i].count =
                 Cardinality(RowsInMinute(frame, shown.buckets[i].interval_start))

\* C7, amended: one bucket for every minute from the minute of the least
\* timestamp to the minute of the greatest, ascending, the minutes without
\* rows included with count 0; the count is the number of rows of the
\* minute.
C7_DenseBuckets ==
    Rendered(frame) =>
        LET lo == CHOOSE s \in Minutes(frame) : \A u \in Minutes(frame) : s <= u
            hi == CHOOSE s \in Minutes(frame) : \A u \in Minutes(frame) : u <= s
        IN  /\ shown.kind = "content"
            /\ Len(shown.buckets) = ((hi - lo) \div BucketSeconds) + 1
            /\ \A i \in DOMAIN shown.buckets :
                 /\ shown.buckets[i].interval_start = lo + (i - 1) * BucketSeconds
                 /\ shown.buckets[i].count =
                      Cardinality(RowsInMinute(frame, shown.buckets[i].interval_start))

\* rows in the minutes 0 and 120 only, every line present: the minute 60
\* is plotted with count 0
C7_Witness ==
    /\ shown.kind = "content"
    /\ Minutes(frame) = {0, 2 * BucketSeconds}
    /\ Len(shown.buckets) = 3
    /\ shown.buckets[2].count = 0

Occurrences(seq, r) == Cardinality({i \in DOMAIN seq : seq[i] = r})

\* C8: the table has min(n, TailSize) rows, in ascending timestamp order;
\* they are rows of the frame, and every row of the frame with a timestamp
\* above the table's least is in the table.
C8_TailSlice ==
    /\ (shown # NotShown /\ frame = EmptyFrame) => shown = NoData
    /\ Rendered(frame) =>
        LET recent == shown.recent
            m == Min(Len(frame), TailSize)
        IN  /\ shown.kind = "content"
            /\ Len(recent) = m
            /\ \A i, j \in DOMAIN recent : i < j => recent[i].timestamp <= recent[j].timestamp
            /\ \A i \in DOMAIN recent : Occurrences(recent, recent[i]) <= Occurrences(frame, recent[i])
            /\ Cardinality({k \in DOMAIN frame : frame[k].timestamp > recent[1].timestamp})
                 = Cardinality({i \in DOMAIN recent : recent[i].timestamp > recent[1].timestamp})

\* more rows than the table takes, not stored in timestamp order
C8_Witness ==
    /\ shown.kind = "content"
    /\ Len(frame) > TailSize
    /\ \E i, j \in DOMAIN frame : i < j /\ frame[i].timestamp > frame[j].timestamp
    /\ Len(shown.recent) = TailSize
    /\ shown.recent[1].timestamp < shown.recent[TailSize].timestamp

\* ------------------------------------------------------------------------
\* Properties of the dashboard (Spec)
\* ------------------------------------------------------------------------

InFlight(p) == callback[p].pc # "idle"

\* this step is the start of update_content for trigger p
Starts(p) == callback[p].pc = "idle" /\ callback'[p].pc # "idle"

\* this step is the one in which the callback of trigger p gets its response
Answers(p) == callback[p].pc # "respond" /\ callback'[p].pc = "respond"

\* the category's entry is valid at time t: younger than refresh_interval
EntryValid(c, t) == cache[c] # NoEntry /\ t - cache[c].loaded_at < refresh_interval

\* C1 as written: two calls for one category made while its entry is valid
\* (both served from the cache, the later one within refresh_interval of
\* the load of the entry the earlier one was served from) return the same
\* frame.
C1_SameFrameWhileValid ==
    \A p, q \in Procs :
        (/\ callback[p].pc = "respond" /\ callback[p].hit
         /\ callback[q].pc = "respond" /\ callback[q].hit
         /\ callback[p].log_type = callback[q].log_type
         /\ now - callback[p].loaded_at < refresh_interval
         /\ now - callback[q].loaded_at < refresh_interval)
        => callback[p].df = callback[q].df

\* C1, amended: a call made while the category's entry is valid returns
\* the frame stored in the entry at that moment and does not run the
\* reader, whatever happened to the snapshot files; the cache is left as
\* it is.
C1_ValidEntryServed ==
    [][\A p \in Procs :
          (Starts(p) /\ EntryValid(callback'[p].log_type, now)) =>
              /\ callback'[p].pc = "respond"
              /\ callback'[p].hit
              /\ callback'[p].df = cache[callback'[p].log_type].value
              /\ callback'[p].loaded_at = cache[callback'[p].log_type].loaded_at
              /\ cache' = cache]_vars

\* a call served from an entry loaded earlier, after the files changed
C1_Witness ==
    \E p \in Procs :
        /\ callback[p].pc = "respond"
        /\ callback[p].hit
        /\ callback[p].loaded_at < now
        /\ callback[p].df # read_latest_parquet_files(dir, callback[p].log_type)

\* C2: a call that finds the category's entry aged refresh_interval or
\* more is not served from it: it runs the reader on the directory as it
\* is now; the result is then stored with the time of the store and is
\* what the call returns.
C2_ExpiredEntryRefreshed ==
    [][\A p \in Procs :
          /\ (/\ Starts(p)
              /\ cache[callback'[p].log_type] # NoEntry
              /\ now - cache[callback'[p].log_type].loaded_at >= refresh_interval)
             => /\ callback'[p].pc = "store"
                /\ callback'[p].df = read_latest_parquet_files(dir, callback'[p].log_type)
          /\ (callback[p].pc = "store" /\ Answers(p))
             => /\ cache'[callback[p].log_type] = [value |-> callback[p].df, loaded_at |-> now]
                /\ callback'[p].df = callback[p].df
                /\ ~callback'[p].hit]_vars

\* a refresh in flight whose result differs from the expired entry it is
\* about to replace
C2_Witness ==
    \E p \in Procs :
        /\ callback[p].pc = "store"
        /\ cache[callback[p].log_type] # NoEntry
        /\ now - cache[callback[p].log_type].loaded_at >= refresh_interval
        /\ callback[p].df # cache[callback[p].log_type].value

\* C5 as written: a query answered while the category has no matching
\* snapshot, or none that loads, shows "no data".
C5_NoFilesNoData ==
    [][\A p \in Procs :
          (Answers(p) /\ \A f \in DOMAIN dir :
                            f.prefix = callback'[p].log_type => dir[f] # "ok")
          => callback'[p].children = NoData]_vars

\* C5, amended: a refresh that runs while the category has no matching
\* snapshot, or none that loads, returns the empty frame; a query whose
\* frame is empty shows "no data" and raises nothing.
C5_EmptyRefreshNoData ==
    [][\A p \in Procs :
          /\ (/\ Starts(p)
              /\ callback'[p].pc = "store"
              /\ \A f \in DOMAIN dir : f.prefix = callback'[p].log_type => dir[f] # "ok")
             => callback'[p].df = EmptyFrame
          /\ (Answers(p) /\ callback'[p].df = EmptyFrame)
             => callback'[p].children = NoData]_vars

\* "no data" shown by a refresh, after time 0, for a category whose
\* snapshot is unreadable
C5_Witness ==
    \E p \in Procs :
        /\ callback[p].pc = "respond"
        /\ ~callback[p].hit
        /\ callback[p].children = NoData
        /\ now > 0
        /\ \E f \in DOMAIN dir : f.prefix = callback[p].log_type /\ dir[f] = "bad"

\* C9 as written: the callback of a tick calls get_dataframe once for
\* every category.
C9_TickCallsEveryCategory ==
    InFlight("interval") => \A c \in Categories : callback["interval"].calls[c] = 1

\* C9, amended: the callback of a tick calls get_dataframe once, for the
\* category of the tab selected at the tick, and not for the other one.
C9_TickCallsSelectedCategory ==
    [][Starts("interval") =>
          callback'["interval"].calls =
              [c \in Categories |->
                  IF c = (IF tab = "tab-1" THEN "access" ELSE "error") THEN 1 ELSE 0]]_vars

\* a tick while the error tab is selected
C9_Witness ==
    /\ InFlight("interval")
    /\ callback["interval"].calls["error"] = 1
    /\ callback["interval"].calls["access"] = 0

\* what the reader can return for each prefix over the states of the
\* dashboard's directory: the rows of at most WindowSize snapshots of the
\* prefix, in descending order of their names
FullResults ==
    [c \in Categories |->
        {Concat([i \in 1 .. Cardinality(S) |-> FileRows(DescendingSeq(S)[i])]) :
            S \in {T \in SUBSET {f \in SysFileNames : f.prefix = c} :
                      Cardinality(T) <= WindowSize}}]

FullResult(v, c) == v \in FullResults[c]

\* C10: in every interleaving, the frame a call holds or returns and the
\* value of every entry is the whole result of a run of the reader for
\* that category; an entry changes only by the store of a call for its own
\* category, to that call's result.
C10_ConcurrentCallsComplete ==
    [][/\ \A p \in Procs :
            callback'[p].pc # "idle" => FullResult(callback'[p].df, callback'[p].log_type)
       /\ \A c \in Categories :
            /\ cache'[c] # NoEntry => FullResult(cache'[c].value, c)
            /\ cache'[c] # cache[c] =>
                 \E p \in Procs :
                     /\ callback[p].pc = "store"
                     /\ callback[p].log_type = c
                     /\ Answers(p)
                     /\ cache'[c] = [value |-> callback[p].df, loaded_at |-> now]]_vars

\* two refreshes of one category with different results, one stored and
\* one still to store, while the other category has its entry
C10_Witness ==
    \E p, q \in Procs :
        /\ callback[p].pc = "store"
        /\ callback[q].pc = "respond" /\ ~callback[q].hit
        /\ callback[p].log_type = callback[q].log_type
        /\ callback[p].df # callback[q].df
        /\ cache[callback[q].log_type].value = callback[q].df
        /\ \E c \in Categories : c # callback[p].log_type /\ cache[c] # NoEntry

====
